---- MODULE Spec2Model ----
(***************************************************************************)
(* FDBEngine of src/fdb_server.py: a write-back cache (_cache) over a      *)
(* one-file-per-key disk store, a periodic flush task and the facade       *)
(* operations.  All coroutines run on one event-loop thread, so a step of  *)
(* the model is the code a coroutine runs between two awaits; the disk     *)
(* functions run on the ThreadPoolExecutor's workers and are separate      *)
(* steps.  threading.RLock is reentrant for the thread that owns it, and   *)
(* every coroutine runs on that thread, so `with self._lock` never blocks  *)
(* a coroutine: the model has no lock variable.                            *)
(***************************************************************************)
EXTENDS Integers, Sequences, FiniteSets, TLC

\* ---- bounds of the model ------------------------------------------------
NumKeys == 3
NumValues == 2
NumTasks == 2
\* FDBConfig.cache_size, taken small so that eviction happens
cache_size == 1
\* number of facade calls and scheduler wake-ups (the clock ticks once per
\* call, so this is also the range of CacheEntry.timestamp)
MaxTime == 4
\* number of disk errors injected
MaxFaults == 1
\* cap of CacheEntry.access_count
MaxAccess == 3
\* the least number of cache entries of which _evict_lru removes two
BatchLen == 10
\* the workload with a hot set: its cache_size, the number of keys it sets
\* beyond cache_size, and the calls it makes before the clock's 0
HotSize == 4
HotMore == 2
HotCalls == 8

\* ---- values -------------------------------------------------------------
\* Python's None: what get returns for not-found
None == 0
\* the content of a file opened with 'wb' and not (yet) written: pickle.load
\* fails on it, so _load_from_disk returns None
Truncated == 0
\* the flush scheduler's task (self._flush_task)
Sched == 0

\* KeyValidator.validate_key: `len(v) > 256`
max_key_len == 256
\* FDBConfig.max_workers
max_workers == 4

\* keys are numbered; Keys are the keys the clients use
Keys == 1..NumKeys
\* the keys of a cache that holds BatchLen entries
BatchKeys == 1..BatchLen
\* the empty key, a key of max_key_len characters and one of one more
EmptyKey == NumKeys + BatchLen + 1
LongestKey == NumKeys + BatchLen + 2
TooLongKey == NumKeys + BatchLen + 3
EdgeKeys == {EmptyKey, LongestKey, TooLongKey}
AllKeys == Keys \cup BatchKeys \cup EdgeKeys

\* the text of key k, over the alphabet {"a", "b"}: k in binary, "a" for 0
\* and "b" for 1, so that distinct keys have distinct texts
RECURSIVE KeyName(_)
KeyName(k) ==
    IF k < 2 THEN <<"b">>
    ELSE KeyName(k \div 2) \o <<IF k % 2 = 0 THEN "a" ELSE "b">>

\* len(key)
KeyLen(k) ==
    IF k = EmptyKey THEN 0
    ELSE IF k = LongestKey THEN max_key_len
    ELSE IF k = TooLongKey THEN max_key_len + 1
    ELSE Len(KeyName(k))

\* validate_key with `len(v) >= 256` for `len(v) > 256`
ValidateKeyOffByOne(k) == KeyLen(k) # 0 /\ ~(KeyLen(k) >= max_key_len)

\* KeyValidator.validate_key: raises when `not v or len(v) > 256`
validate_key(k) == KeyLen(k) # 0 /\ ~(KeyLen(k) > max_key_len)

Values == 1..NumValues
Tasks == 1..NumTasks
Procs == Tasks \cup {Sched}
\* ghost: no expectation about a key
NoExp == NumValues + 1

VARIABLES
    cache,      \* self._cache: key -> CacheEntry (a dict: the domain varies)
    disk,       \* the data directory: key -> value of the record, or Truncated
    now,        \* time.time(), a logical clock
    running,    \* self._running
    shutdown,   \* self._executor has been shut down
    cancel,     \* self._flush_task.cancel() was called and not yet delivered
    pc,         \* where each coroutine is suspended
    key,        \* the key argument of the call each coroutine is in
    evq,        \* _evict_lru: the part of sorted_items[:to_remove] still to do
    jobs,       \* the executor futures each coroutine awaits: key -> job
    faults,     \* disk errors injected so far
    ev,         \* the facade call that returned in the last step, if any
    expect,     \* ghost: the value each key must read as (or NoExp)
    gh,         \* ghost: the expectation a call in progress carries
    gsnap       \* ghost: expect as of the call of the flush() or stop() in progress

vars == <<cache, disk, now, running, shutdown, cancel, pc, key, evq, jobs,
          faults, ev, expect, gh, gsnap>>

\* ---- CacheEntry and the dict --------------------------------------------
CacheEntry(v, ts, d, ac) ==
    [value |-> v, timestamp |-> ts, dirty |-> d, access_count |-> ac]

InstallEntry(c, k, e) ==
    [x \in DOMAIN c \cup {k} |-> IF x = k THEN e ELSE c[x]]

RemoveKey(c, k) ==
    [x \in DOMAIN c \ {k} |-> c[x]]

EmptyMap == [x \in {} |-> 0]

\* ---- events -------------------------------------------------------------
\* ghost: no expectation about any key
NoSnap == [k \in AllKeys |-> NoExp]

\* op returned res (or raised exc) in task proc; exp and snap are ghosts: what
\* the call had to observe
NoEvent ==
    [op |-> "none", proc |-> 0, key |-> 0, res |-> 0, exc |-> "", exp |-> NoExp,
     snap |-> NoSnap]

Event(o, p, k, r, x, e) ==
    [op |-> o, proc |-> p, key |-> k, res |-> r, exc |-> x, exp |-> e,
     snap |-> NoSnap]

SnapEvent(o, p, r, x, sn) ==
    [op |-> o, proc |-> p, key |-> 0, res |-> r, exc |-> x, exp |-> NoExp,
     snap |-> sn]

\* ---- the disk functions (run on a worker) --------------------------------
\* _get_file_path: md5 is taken injective on Keys, so a path is its key
LoadFromDisk(d, k) ==
    IF k \in DOMAIN d /\ d[k] # Truncated THEN d[k] ELSE None

FileExists(d, k) == k \in DOMAIN d

\* a future of loop.run_in_executor: st is how far the worker got; live says
\* that the entry object the caller holds is still the one in the cache
SaveJob(v) == [op |-> "save", value |-> v, st |-> "queued", res |-> 0, live |-> TRUE]
LoadJob == [op |-> "load", value |-> 0, st |-> "queued", res |-> 0, live |-> TRUE]
RemoveJob == [op |-> "remove", value |-> 0, st |-> "queued", res |-> 0, live |-> TRUE]
ClearJob == [op |-> "clear", value |-> 0, st |-> "queued", res |-> 0, live |-> TRUE]

Finished(j) == j.st \in {"ok", "fail"}

AllFinished(p) == \A k \in DOMAIN jobs[p] : Finished(jobs[p][k])

\* a file that is unlinked while a writer holds it open: the writer's data
\* goes to the unlinked inode
Orphan(js, K) ==
    [p \in Procs |->
        [k \in DOMAIN js[p] |->
            IF k \in K /\ js[p][k].op = "save" /\ js[p][k].st = "open"
            THEN [js[p][k] EXCEPT !.st = "orphan"]
            ELSE js[p][k]]]

\* ---- _evict_lru ---------------------------------------------------------
\* the order of a sort by timestamp alone
LessByTimestamp(c, a, b) == c[a].timestamp < c[b].timestamp

\* the order of key=lambda x: (x[1].access_count, x[1].timestamp)
Less(c, a, b) ==
    \/ c[a].access_count < c[b].access_count
    \/ /\ c[a].access_count = c[b].access_count
       /\ c[a].timestamp < c[b].timestamp

\* sorted(self._cache.items(), key=(access_count, timestamp)), as keys
SortedItems(c) ==
    [i \in 1..Cardinality(DOMAIN c) |->
        CHOOSE k \in DOMAIN c :
            Cardinality({j \in DOMAIN c : Less(c, j, k)}) = i - 1]

\* to_remove = ceil(len / 10)
ToRemoveCeil(n) == (n + 9) \div 10

\* to_remove = len(sorted_items) // 10 + 1
ToRemove(n) == n \div 10 + 1

Min(a, b) == IF a < b THEN a ELSE b

\* sorted_items[:to_remove] of an eviction that writes no evictee
EvicteesUnwritten(c) ==
    LET s == SortedItems(c)
        n == Min(ToRemove(Len(s)), Len(s))
        b == [i \in 1..n |-> [key |-> s[i], value |-> c[s[i]].value, dirty |-> FALSE]]
    IN [i \in 1..n |->
          [key |-> s[i], value |-> c[s[i]].value, dirty |-> FALSE,
           live |-> TRUE, batch |-> b]]

\* sorted_items[:to_remove]; each element refers to the entry object that
\* was in the cache at that time: live says it still is that object, and
\* batch is the whole slice as it was selected
Evictees(c) ==
    LET s == SortedItems(c)
        n == Min(ToRemove(Len(s)), Len(s))
        b == [i \in 1..n |->
                [key |-> s[i], value |-> c[s[i]].value, dirty |-> c[s[i]].dirty]]
    IN [i \in 1..n |->
          [key |-> s[i], value |-> c[s[i]].value, dirty |-> c[s[i]].dirty,
           live |-> TRUE, batch |-> b]]

\* the for loop up to its next await: an evictee that is not dirty is deleted
\* at once; del self._cache[key] raises KeyError when the key is gone
\* (written: the loop resumes after the await of the head's write)
RECURSIVE EvictLoop(_, _, _)
EvictLoop(c, q, written) ==
    IF q = <<>> THEN [cache |-> c, q |-> q, st |-> "done"]
    ELSE IF Head(q).dirty /\ ~written THEN [cache |-> c, q |-> q, st |-> "await"]
    ELSE IF Head(q).key \notin DOMAIN c THEN [cache |-> c, q |-> q, st |-> "KeyError"]
    ELSE EvictLoop(RemoveKey(c, Head(q).key), Tail(q), FALSE)

\* the entry objects of the keys K left the cache: a snapshot that refers to
\* them no longer sees changes of the cache's entries
Retire(qs, K) ==
    [p \in Procs |->
        [i \in DOMAIN qs[p] |->
            IF qs[p][i].key \in K THEN [qs[p][i] EXCEPT !.live = FALSE]
            ELSE qs[p][i]]]

\* the same for the entry objects a flush holds in dirty_entries
RetireJobs(js, K) ==
    [p \in Procs |->
        [k \in DOMAIN js[p] |->
            IF k \in K THEN [js[p][k] EXCEPT !.live = FALSE] ELSE js[p][k]]]

\* self._cache[key].dirty = False for the keys K, seen through the snapshots
\* that refer to those objects
Cleaned(qs, K) ==
    [p \in Procs |->
        [i \in DOMAIN qs[p] |->
            IF qs[p][i].key \in K /\ qs[p][i].live
            THEN [qs[p][i] EXCEPT !.dirty = FALSE]
            ELSE qs[p][i]]]

\* ---- the event loop -----------------------------------------------------
\* self._executor.shutdown(wait=True) blocks the event-loop thread
LoopFree == \A p \in Procs : pc[p] # "stop_shutdown"

CanCall(t) == pc[t] = "idle" /\ LoopFree /\ now < MaxTime

\* ghost: a call on key k begins: calls in progress on k lose their expectation
Invalidate(g, t, K) ==
    [p \in Procs |-> IF p # t /\ key[p] \in K THEN NoExp ELSE g[p]]

\* ghost: a set, delete or flushdb on the keys K begins while a flush is in
\* progress: that flush is not held to them
Forget(gs, K) ==
    [p \in Procs |-> [k \in AllKeys |-> IF k \in K THEN NoExp ELSE gs[p][k]]]

Init ==
    /\ cache = EmptyMap
    /\ disk = EmptyMap
    /\ now = 0
    /\ running = TRUE
    /\ shutdown = FALSE
    /\ cancel = FALSE
    /\ pc = [p \in Procs |-> IF p = Sched THEN "off" ELSE "idle"]
    /\ key = [p \in Procs |-> 0]
    /\ evq = [p \in Procs |-> <<>>]
    /\ jobs = [p \in Procs |-> EmptyMap]
    /\ faults = 0
    /\ ev = NoEvent
    /\ expect = NoSnap
    /\ gh = [p \in Procs |-> NoExp]
    /\ gsnap = [p \in Procs |-> NoSnap]


\* ---- _validate_key ------------------------------------------------------
\* the operations whose first statement is key = self._validate_key(key)
KeyOps == {"set", "get", "delete", "exists"}

\* set, get, delete or exists called with a key that validate_key refuses:
\* pydantic's ValidationError leaves the call at its first statement
InvalidKey(t, op, k) ==
    /\ CanCall(t)
    /\ op \in KeyOps
    /\ ~validate_key(k)
    /\ ev' = Event(op, t, k, 0, "ValidationError", NoExp)
    /\ UNCHANGED <<cache, disk, now, running, shutdown, cancel, pc, key, evq,
                   jobs, faults, expect, gh, gsnap>>

\* ---- set ----------------------------------------------------------------
\* set from the for loop of _evict_lru on: c is the cache, q the evictees
\* left, gone the keys whose entry object left the cache in this step,
\* g and e the ghosts.  The loop runs to its next await (the write of a dirty
\* evictee), to its end (set returns True) or to an exception.
EvictRun(t, k, c, q, written, gone, g, e) ==
    LET r == EvictLoop(c, q, written)
        left == gone \cup (DOMAIN c \ DOMAIN r.cache)
        x == IF r.st = "await" THEN "RuntimeError"
             ELSE IF r.st = "KeyError" THEN "KeyError" ELSE ""
    IN /\ cache' = r.cache
       /\ IF r.st = "await" /\ ~shutdown
          THEN /\ pc' = [pc EXCEPT ![t] = "evict_wait"]
               /\ key' = [key EXCEPT ![t] = k]
               /\ evq' = [Retire(evq, left) EXCEPT ![t] = r.q]
               /\ jobs' = [RetireJobs(jobs, left) EXCEPT
                              ![t] = (Head(r.q).key :> SaveJob(Head(r.q).value))]
               /\ ev' = NoEvent
               /\ gh' = g
               /\ expect' = e
          ELSE /\ pc' = [pc EXCEPT ![t] = "idle"]
               /\ key' = [key EXCEPT ![t] = 0]
               /\ evq' = [Retire(evq, left) EXCEPT ![t] = <<>>]
               /\ jobs' = [RetireJobs(jobs, left) EXCEPT ![t] = EmptyMap]
               /\ ev' = Event("set", t, k, IF x = "" THEN 1 ELSE 0, x, NoExp)
               /\ gh' = [g EXCEPT ![t] = NoExp]
               /\ expect' = IF x = "" /\ g[t] # NoExp
                            THEN [e EXCEPT ![k] = g[t]] ELSE e

\* set of an engine whose FDBConfig.cache_size is size
SetWith(t, k, v, size) ==
    /\ CanCall(t)
    /\ validate_key(k)
    /\ now' = now + 1
    /\ LET c1 == InstallEntry(cache, k, CacheEntry(v, now + 1, TRUE, 1))
           q == IF Cardinality(DOMAIN c1) > size THEN Evictees(c1) ELSE <<>>
       IN EvictRun(t, k, c1, q, FALSE, {k},
                   [Invalidate(gh, t, {k}) EXCEPT ![t] = v],
                   [expect EXCEPT ![k] = NoExp])
    /\ gsnap' = Forget(gsnap, {k})
    /\ UNCHANGED <<disk, running, shutdown, cancel, faults>>

Set(t, k, v) == SetWith(t, k, v, cache_size)

\* the await of the evictee's write returned: del self._cache[key], and on
\* with the loop
EvictResume(t) ==
    /\ pc[t] = "evict_wait" /\ LoopFree /\ AllFinished(t)
    /\ EvictRun(t, key[t], cache, evq[t], TRUE, {}, gh, expect)
    /\ UNCHANGED <<disk, now, running, shutdown, cancel, faults, gsnap>>

\* the task that runs set is cancelled while it awaits the write of an
\* evictee: CancelledError is raised at the await and leaves _evict_lru and
\* set.  A write that no worker has begun may be cancelled with it; one that
\* a worker runs goes on, and nobody awaits it.
CancelSet(t) ==
    /\ pc[t] = "evict_wait" /\ LoopFree
    /\ \E D \in SUBSET {k \in DOMAIN jobs[t] : jobs[t][k].st = "queued"} :
          jobs' = [jobs EXCEPT ![t] = [k \in DOMAIN @ \ D |-> @[k]]]
    /\ pc' = [pc EXCEPT ![t] = "cancelled"]
    /\ key' = [key EXCEPT ![t] = 0]
    /\ evq' = [evq EXCEPT ![t] = <<>>]
    /\ gh' = [gh EXCEPT ![t] = NoExp]
    /\ ev' = Event("set", t, key[t], 0, "CancelledError", NoExp)
    /\ UNCHANGED <<cache, disk, now, running, shutdown, cancel, faults, expect,
                   gsnap>>

\* ---- get ----------------------------------------------------------------
GetHit(t, k) ==
    /\ CanCall(t)
    /\ validate_key(k)
    /\ k \in DOMAIN cache
    /\ cache[k].access_count < MaxAccess
    /\ now' = now + 1
    /\ cache' = [cache EXCEPT ![k].access_count = @ + 1]
    /\ ev' = Event("get", t, k, cache[k].value, "", expect[k])
    /\ UNCHANGED <<disk, running, shutdown, cancel, pc, key, evq, jobs, faults,
                   expect, gh, gsnap>>

GetMiss(t, k) ==
    /\ CanCall(t)
    /\ validate_key(k)
    /\ k \notin DOMAIN cache
    /\ now' = now + 1
    /\ IF shutdown
       THEN /\ ev' = Event("get", t, k, None, "RuntimeError", NoExp)
            /\ UNCHANGED <<pc, key, jobs, gh>>
       ELSE /\ pc' = [pc EXCEPT ![t] = "get_wait"]
            /\ key' = [key EXCEPT ![t] = k]
            /\ jobs' = [jobs EXCEPT ![t] = (k :> LoadJob)]
            /\ gh' = [gh EXCEPT ![t] = expect[k]]
            /\ ev' = NoEvent
    /\ UNCHANGED <<cache, disk, running, shutdown, cancel, evq, faults, expect,
                   gsnap>>

\* value = await ...; a value that is not None is installed as a clean entry
GetResume(t) ==
    /\ pc[t] = "get_wait" /\ LoopFree /\ AllFinished(t)
    /\ LET k == key[t]
           value == jobs[t][k].res
       IN /\ IF value # None
             THEN /\ now' = now + 1
                  /\ cache' = InstallEntry(cache, k, CacheEntry(value, now + 1, FALSE, 1))
                  /\ evq' = Retire(evq, {k})
                  /\ jobs' = [RetireJobs(jobs, {k}) EXCEPT ![t] = EmptyMap]
             ELSE /\ jobs' = [jobs EXCEPT ![t] = EmptyMap]
                  /\ UNCHANGED <<now, cache, evq>>
          /\ ev' = Event("get", t, k, value, "", gh[t])
    /\ pc' = [pc EXCEPT ![t] = "idle"]
    /\ key' = [key EXCEPT ![t] = 0]
    /\ gh' = [gh EXCEPT ![t] = NoExp]
    /\ UNCHANGED <<disk, running, shutdown, cancel, faults, expect, gsnap>>

\* ---- delete, exists, flushdb --------------------------------------------
Delete(t, k) ==
    /\ CanCall(t)
    /\ validate_key(k)
    /\ now' = now + 1
    /\ cache' = RemoveKey(cache, k)
    /\ evq' = Retire(evq, {k})
    /\ expect' = [expect EXCEPT ![k] = NoExp]
    /\ gsnap' = Forget(gsnap, {k})
    /\ IF shutdown
       THEN /\ ev' = Event("delete", t, k, 0, "RuntimeError", NoExp)
            /\ jobs' = RetireJobs(jobs, {k})
            /\ gh' = Invalidate(gh, t, {k})
            /\ UNCHANGED <<pc, key>>
       ELSE /\ pc' = [pc EXCEPT ![t] = "delete_wait"]
            /\ key' = [key EXCEPT ![t] = k]
            /\ jobs' = [RetireJobs(jobs, {k}) EXCEPT ![t] = (k :> RemoveJob)]
            /\ gh' = [Invalidate(gh, t, {k}) EXCEPT ![t] = None]
            /\ ev' = NoEvent
    /\ UNCHANGED <<disk, running, shutdown, cancel, faults>>

DeleteResume(t) ==
    /\ pc[t] = "delete_wait" /\ LoopFree /\ AllFinished(t)
    /\ LET k == key[t]
           res == jobs[t][k].res
       IN /\ ev' = Event("delete", t, k, res, "", NoExp)
          /\ expect' = IF res = 1 /\ gh[t] # NoExp
                       THEN [expect EXCEPT ![k] = None] ELSE expect
    /\ pc' = [pc EXCEPT ![t] = "idle"]
    /\ key' = [key EXCEPT ![t] = 0]
    /\ jobs' = [jobs EXCEPT ![t] = EmptyMap]
    /\ gh' = [gh EXCEPT ![t] = NoExp]
    /\ UNCHANGED <<cache, disk, now, running, shutdown, cancel, evq, faults, gsnap>>

\* file_path.exists() runs on the event-loop thread, not on a worker
Exists(t, k) ==
    /\ CanCall(t)
    /\ validate_key(k)
    /\ now' = now + 1
    /\ ev' = Event("exists", t, k,
                   IF k \in DOMAIN cache \/ FileExists(disk, k) THEN 1 ELSE 0,
                   "", expect[k])
    /\ UNCHANGED <<cache, disk, running, shutdown, cancel, pc, key, evq, jobs,
                   faults, expect, gh, gsnap>>

Flushdb(t) ==
    /\ CanCall(t)
    /\ now' = now + 1
    /\ cache' = EmptyMap
    /\ evq' = Retire(evq, AllKeys)
    /\ expect' = NoSnap
    /\ gsnap' = Forget(gsnap, AllKeys)
    /\ gh' = Invalidate(gh, t, AllKeys)
    /\ IF shutdown
       THEN /\ ev' = Event("flushdb", t, 0, 0, "RuntimeError", NoExp)
            /\ jobs' = RetireJobs(jobs, AllKeys)
            /\ UNCHANGED pc
       ELSE /\ pc' = [pc EXCEPT ![t] = "flushdb_wait"]
            /\ jobs' = [RetireJobs(jobs, AllKeys) EXCEPT ![t] = (0 :> ClearJob)]
            /\ ev' = NoEvent
    /\ UNCHANGED <<disk, running, shutdown, cancel, key, faults>>

FlushdbResume(t) ==
    /\ pc[t] = "flushdb_wait" /\ LoopFree /\ AllFinished(t)
    /\ ev' = Event("flushdb", t, 0, jobs[t][0].res, "", NoExp)
    /\ pc' = [pc EXCEPT ![t] = "idle"]
    /\ jobs' = [jobs EXCEPT ![t] = EmptyMap]
    /\ UNCHANGED <<cache, disk, now, running, shutdown, cancel, key, evq, faults,
                   expect, gh, gsnap>>


\* ---- keys, dbsize -------------------------------------------------------
\* the patterns the clients use: "*", "b*", "*a", "?", "b?", "b"
Patterns ==
    {<<"*">>, <<"b", "*">>, <<"*", "a">>, <<"?">>, <<"b", "?">>, <<"b">>}

\* fnmatch.fnmatch(name, pat) for patterns of literals, "?" and "*"
RECURSIVE Match(_, _)
Match(pat, name) ==
    IF pat = <<>> THEN name = <<>>
    ELSE IF Head(pat) = "*"
    THEN Match(Tail(pat), name) \/ (name # <<>> /\ Match(pat, Tail(name)))
    ELSE /\ name # <<>>
         /\ (Head(pat) = "?" \/ Head(pat) = Head(name))
         /\ Match(Tail(pat), Tail(name))

\* _scan_disk_keys with every file's name
ScanAllFiles(d) == DOMAIN d

\* _scan_disk_keys: data['key'] of every file that pickle.load reads; a
\* file that does not load is skipped
ScanDiskKeys(d) == {k \in DOMAIN d : d[k] # Truncated}

\* run_in_executor(self._scan_disk_keys) of a keys(pattern) whose `keys` set
\* holds ks: the future carries the call's locals
ScanJob(ks, pat) ==
    [op |-> "scan", value |-> [keys |-> ks, pattern |-> pat], st |-> "queued",
     res |-> {}, live |-> TRUE]

\* keys(pattern) after `disk_keys = await ...`: the list of keys, as a set
KeysResult(j) ==
    LET all == j.value.keys \cup j.res
    IN IF j.value.pattern = <<"*">> THEN all
       ELSE {k \in all : Match(j.value.pattern, KeyName(k))}

\* keys(pattern) up to its await / dbsize() up to the await of its keys()
ScanCall(t, op, pat, wait) ==
    /\ CanCall(t)
    /\ now' = now + 1
    /\ IF shutdown
       THEN /\ ev' = Event(op, t, pat, 0, "RuntimeError", NoExp)
            /\ UNCHANGED <<pc, jobs>>
       ELSE /\ pc' = [pc EXCEPT ![t] = wait]
            /\ jobs' = [jobs EXCEPT ![t] = (0 :> ScanJob(DOMAIN cache, pat))]
            /\ ev' = NoEvent
    /\ UNCHANGED <<cache, disk, running, shutdown, cancel, key, evq, faults,
                   expect, gh, gsnap>>

KeysCall(t, pat) == ScanCall(t, "keys", pat, "keys_wait")

\* exp says that the scan met no error
KeysResume(t) ==
    /\ pc[t] = "keys_wait" /\ LoopFree /\ AllFinished(t)
    /\ ev' = Event("keys", t, jobs[t][0].value.pattern, KeysResult(jobs[t][0]), "",
                   IF jobs[t][0].st = "ok" THEN 1 ELSE NoExp)
    /\ pc' = [pc EXCEPT ![t] = "idle"]
    /\ jobs' = [jobs EXCEPT ![t] = EmptyMap]
    /\ UNCHANGED <<cache, disk, now, running, shutdown, cancel, key, evq, faults,
                   expect, gh, gsnap>>

\* dbsize: keys = await self.keys(); return len(keys)
DbsizeCall(t) == ScanCall(t, "dbsize", <<"*">>, "dbsize_wait")

DbsizeResume(t) ==
    /\ pc[t] = "dbsize_wait" /\ LoopFree /\ AllFinished(t)
    /\ ev' = Event("dbsize", t, 0, Cardinality(KeysResult(jobs[t][0])), "",
                   IF jobs[t][0].st = "ok" THEN 1 ELSE NoExp)
    /\ pc' = [pc EXCEPT ![t] = "idle"]
    /\ jobs' = [jobs EXCEPT ![t] = EmptyMap]
    /\ UNCHANGED <<cache, disk, now, running, shutdown, cancel, key, evq, faults,
                   expect, gh, gsnap>>

\* ---- flush --------------------------------------------------------------
\* dirty_entries = {k: v for k, v in self._cache.items() if v.dirty}
DirtyEntries(c) == {k \in DOMAIN c : c[k].dirty}

\* one run_in_executor(self._save_to_disk, key, entry.value) per dirty entry
FlushJobs(c) == [k \in DirtyEntries(c) |-> SaveJob(c[k].value)]

\* _save_to_disk returns True or False and never raises, so no result that
\* gather collects is an Exception
IsException(j) == FALSE

\* the keys whose dirty flag the second `with self._lock` block clears
Cleared(c, js) == {k \in DOMAIN js : k \in DOMAIN c /\ ~IsException(js[k])}

ClearDirty(c, K) ==
    [k \in DOMAIN c |-> IF k \in K THEN [c[k] EXCEPT !.dirty = FALSE] ELSE c[k]]

Flush(t) ==
    /\ CanCall(t)
    /\ now' = now + 1
    /\ IF DirtyEntries(cache) = {}
       THEN /\ ev' = SnapEvent("flush", t, 0, "", expect)
            /\ UNCHANGED <<pc, jobs, gsnap>>
       ELSE IF shutdown
       THEN /\ ev' = SnapEvent("flush", t, 0, "RuntimeError", NoSnap)
            /\ UNCHANGED <<pc, jobs, gsnap>>
       ELSE /\ pc' = [pc EXCEPT ![t] = "flush_wait"]
            /\ jobs' = [jobs EXCEPT ![t] = FlushJobs(cache)]
            /\ gsnap' = [gsnap EXCEPT ![t] = expect]
            /\ ev' = NoEvent
    /\ UNCHANGED <<cache, disk, running, shutdown, cancel, key, evq, faults,
                   expect, gh>>

FlushResume(t) ==
    /\ pc[t] = "flush_wait" /\ t \in Tasks /\ LoopFree /\ AllFinished(t)
    /\ LET K == Cleared(cache, jobs[t])
       IN /\ cache' = ClearDirty(cache, K)
          /\ evq' = Cleaned(evq, K)
          /\ ev' = SnapEvent("flush", t, Cardinality(K), "", gsnap[t])
    /\ pc' = [pc EXCEPT ![t] = "idle"]
    /\ jobs' = [jobs EXCEPT ![t] = EmptyMap]
    /\ gsnap' = [gsnap EXCEPT ![t] = NoSnap]
    /\ UNCHANGED <<disk, now, running, shutdown, cancel, key, faults, expect, gh>>

\* ---- start, stop --------------------------------------------------------
\* start that creates a task at every call
NoFlushTaskAlways == TRUE

\* `not self._flush_task`: the field is set by start and never reset
NoFlushTask == pc[Sched] = "off"

\* if not self._flush_task: create_task(self._periodic_flush()); res is a
\* ghost that says whether this call created a task
Start(t) ==
    /\ CanCall(t)
    /\ now' = now + 1
    /\ pc' = [pc EXCEPT ![Sched] = IF NoFlushTask THEN "new" ELSE @]
    /\ ev' = Event("start", t, 0, IF NoFlushTask THEN 1 ELSE 0, "", NoExp)
    /\ UNCHANGED <<cache, disk, running, shutdown, cancel, key, evq, jobs,
                   faults, expect, gh, gsnap>>

\* stop up to the await of its flush
Stop(t) ==
    /\ CanCall(t)
    /\ now' = now + 1
    /\ running' = FALSE
    /\ cancel' = (cancel \/ pc[Sched] \notin {"off", "done"})
    /\ IF DirtyEntries(cache) = {}
       THEN /\ pc' = [pc EXCEPT ![t] = "stop_shutdown"]
            /\ gsnap' = [gsnap EXCEPT ![t] = expect]
            /\ ev' = NoEvent
            /\ UNCHANGED jobs
       ELSE IF shutdown
       THEN /\ ev' = SnapEvent("stop", t, 0, "RuntimeError", NoSnap)
            /\ UNCHANGED <<pc, jobs, gsnap>>
       ELSE /\ pc' = [pc EXCEPT ![t] = "stop_flush_wait"]
            /\ jobs' = [jobs EXCEPT ![t] = FlushJobs(cache)]
            /\ gsnap' = [gsnap EXCEPT ![t] = expect]
            /\ ev' = NoEvent
    /\ UNCHANGED <<cache, disk, shutdown, key, evq, faults, expect, gh>>

\* the flush of stop returns; self._executor.shutdown(wait=True) begins
StopFlushResume(t) ==
    /\ pc[t] = "stop_flush_wait" /\ LoopFree /\ AllFinished(t)
    /\ LET K == Cleared(cache, jobs[t])
       IN /\ cache' = ClearDirty(cache, K)
          /\ evq' = Cleaned(evq, K)
    /\ pc' = [pc EXCEPT ![t] = "stop_shutdown"]
    /\ jobs' = [jobs EXCEPT ![t] = EmptyMap]
    /\ ev' = NoEvent
    /\ UNCHANGED <<disk, now, running, shutdown, cancel, key, faults, expect, gh,
                   gsnap>>

\* shutdown(wait=True) returns once every future of the pool is done
StopReturn(t) ==
    /\ pc[t] = "stop_shutdown"
    /\ \A p \in Procs : AllFinished(p)
    /\ shutdown' = TRUE
    /\ pc' = [pc EXCEPT ![t] = "idle"]
    /\ ev' = SnapEvent("stop", t, 0, "", gsnap[t])
    /\ gsnap' = [gsnap EXCEPT ![t] = NoSnap]
    /\ UNCHANGED <<cache, disk, now, running, cancel, key, evq, jobs, faults,
                   expect, gh>>

\* ---- _periodic_flush ----------------------------------------------------
\* `while True` for `while self._running`
LoopTestForever == "sleep"

\* the `while self._running` test
LoopTest == IF running THEN "sleep" ELSE "done"

SchedBegin ==
    /\ pc[Sched] = "new" /\ LoopFree /\ ~cancel
    /\ pc' = [pc EXCEPT ![Sched] = LoopTest]
    /\ ev' = NoEvent
    /\ UNCHANGED <<cache, disk, now, running, shutdown, cancel, key, evq, jobs,
                   faults, expect, gh, gsnap>>

\* asyncio.sleep(flush_interval) returns and flush() runs to its await; a
\* RuntimeError of run_in_executor is caught by `except Exception`.  The
\* pass reads no clock, and the scheduler wakes for as long as it runs.
SchedWake ==
    /\ pc[Sched] = "sleep" /\ LoopFree /\ ~cancel
    /\ IF DirtyEntries(cache) = {} \/ shutdown
       THEN /\ pc' = [pc EXCEPT ![Sched] = LoopTest]
            /\ UNCHANGED jobs
       ELSE /\ pc' = [pc EXCEPT ![Sched] = "flush_wait"]
            /\ jobs' = [jobs EXCEPT ![Sched] = FlushJobs(cache)]
    /\ ev' = Event("wake", Sched, 0, 0, "", NoExp)
    /\ UNCHANGED <<cache, disk, now, running, shutdown, cancel, key, evq, faults,
                   expect, gh, gsnap>>

SchedFlushResume ==
    /\ pc[Sched] = "flush_wait" /\ LoopFree /\ ~cancel /\ AllFinished(Sched)
    /\ LET K == Cleared(cache, jobs[Sched])
       IN /\ cache' = ClearDirty(cache, K)
          /\ evq' = Cleaned(evq, K)
    /\ pc' = [pc EXCEPT ![Sched] = LoopTest]
    /\ jobs' = [jobs EXCEPT ![Sched] = EmptyMap]
    /\ ev' = NoEvent
    /\ UNCHANGED <<disk, now, running, shutdown, cancel, key, faults, expect, gh,
                   gsnap>>

\* CancelledError is raised in the task at its await (`break`).  A write that
\* no worker has begun may be cancelled with the gather; one that a worker
\* runs goes on, and nobody awaits it.
SchedCancelled ==
    /\ cancel /\ LoopFree
    /\ pc[Sched] \in {"new", "sleep", "flush_wait"}
    /\ \E D \in SUBSET {k \in DOMAIN jobs[Sched] : jobs[Sched][k].st = "queued"} :
          jobs' = [jobs EXCEPT ![Sched] = [k \in DOMAIN @ \ D |-> @[k]]]
    /\ cancel' = FALSE
    /\ pc' = [pc EXCEPT ![Sched] = "done"]
    /\ ev' = NoEvent
    /\ UNCHANGED <<cache, disk, now, running, shutdown, key, evq, faults, expect,
                   gh, gsnap>>

\* ---- the workers of the ThreadPoolExecutor ------------------------------
SetJob(p, k, j) == [jobs EXCEPT ![p][k] = j]

\* _save_to_disk: open(file_path, 'wb') truncates the file
WorkerOpen(p, k) ==
    /\ k \in DOMAIN jobs[p]
    /\ jobs[p][k].op = "save" /\ jobs[p][k].st = "queued"
    /\ jobs' = SetJob(p, k, [jobs[p][k] EXCEPT !.st = "open"])
    /\ disk' = InstallEntry(disk, k, Truncated)
    /\ ev' = NoEvent
    /\ UNCHANGED <<cache, now, running, shutdown, cancel, pc, key, evq, faults,
                   expect, gh, gsnap>>

\* _save_to_disk: pickle.dump and the close of the file; returns True
WorkerWrite(p, k) ==
    /\ k \in DOMAIN jobs[p]
    /\ jobs[p][k].op = "save" /\ jobs[p][k].st \in {"open", "orphan"}
    /\ jobs' = SetJob(p, k, [jobs[p][k] EXCEPT !.st = "ok", !.res = 1])
    /\ disk' = IF jobs[p][k].st = "open"
               THEN InstallEntry(disk, k, jobs[p][k].value) ELSE disk
    /\ ev' = NoEvent
    /\ UNCHANGED <<cache, now, running, shutdown, cancel, pc, key, evq, faults,
                   expect, gh, gsnap>>

\* _load_from_disk
WorkerLoad(p, k) ==
    /\ k \in DOMAIN jobs[p]
    /\ jobs[p][k].op = "load" /\ jobs[p][k].st = "queued"
    /\ jobs' = SetJob(p, k, [jobs[p][k] EXCEPT !.st = "ok", !.res = LoadFromDisk(disk, k)])
    /\ ev' = NoEvent
    /\ UNCHANGED <<cache, disk, now, running, shutdown, cancel, pc, key, evq,
                   faults, expect, gh, gsnap>>

\* _remove_from_disk that returns whether there was a file to unlink
RemoveResultIfExisted(d, k) == IF FileExists(d, k) THEN 1 ELSE 0

\* _remove_from_disk, when nothing raises: `return True`, file or no file
RemoveResult(d, k) == 1

\* _remove_from_disk: unlink if the file exists; returns True
WorkerRemove(p, k) ==
    /\ k \in DOMAIN jobs[p]
    /\ jobs[p][k].op = "remove" /\ jobs[p][k].st = "queued"
    /\ disk' = RemoveKey(disk, k)
    /\ jobs' = [Orphan(jobs, {k}) EXCEPT
                   ![p][k] = [@ EXCEPT !.st = "ok", !.res = RemoveResult(disk, k)]]
    /\ ev' = NoEvent
    /\ UNCHANGED <<cache, now, running, shutdown, cancel, pc, key, evq, faults,
                   expect, gh, gsnap>>


\* _clear_disk: shutil.rmtree(data_path) and mkdir; returns True
WorkerClear(p) ==
    /\ 0 \in DOMAIN jobs[p]
    /\ jobs[p][0].op = "clear" /\ jobs[p][0].st = "queued"
    /\ disk' = EmptyMap
    /\ jobs' = [Orphan(jobs, AllKeys) EXCEPT ![p][0] = [@ EXCEPT !.st = "ok", !.res = 1]]
    /\ ev' = NoEvent
    /\ UNCHANGED <<cache, now, running, shutdown, cancel, pc, key, evq, faults,
                   expect, gh, gsnap>>

\* _scan_disk_keys
WorkerScan(p) ==
    /\ 0 \in DOMAIN jobs[p]
    /\ jobs[p][0].op = "scan" /\ jobs[p][0].st = "queued"
    /\ jobs' = SetJob(p, 0, [jobs[p][0] EXCEPT !.st = "ok", !.res = ScanDiskKeys(disk)])
    /\ ev' = NoEvent
    /\ UNCHANGED <<cache, disk, now, running, shutdown, cancel, pc, key, evq,
                   faults, expect, gh, gsnap>>

\* an OSError or a pickling error in a disk function: every one of them
\* catches Exception; _save_to_disk, _remove_from_disk and _clear_disk return
\* False, _load_from_disk returns None and _scan_disk_keys returns the keys
\* it had read.  The file is left as it is (a write that fails after open
\* leaves it truncated).
DiskError(p, k) ==
    /\ faults < MaxFaults
    /\ k \in DOMAIN jobs[p]
    /\ ~Finished(jobs[p][k])
    /\ faults' = faults + 1
    /\ IF jobs[p][k].op = "scan"
       THEN \E S \in SUBSET ScanDiskKeys(disk) :
               jobs' = SetJob(p, k, [jobs[p][k] EXCEPT !.st = "fail", !.res = S])
       ELSE jobs' = SetJob(p, k, IF jobs[p][k].op = "load"
                                 THEN [jobs[p][k] EXCEPT !.st = "ok", !.res = None]
                                 ELSE [jobs[p][k] EXCEPT !.st = "fail", !.res = 0])
    /\ ev' = NoEvent
    /\ UNCHANGED <<cache, disk, now, running, shutdown, cancel, pc, key, evq,
                   expect, gh, gsnap>>

\* ---- specifications ------------------------------------------------------
Workers ==
    \E p \in Procs :
        \/ \E k \in Keys : WorkerOpen(p, k)
        \/ \E k \in Keys : WorkerWrite(p, k)
        \/ \E k \in Keys : WorkerLoad(p, k)
        \/ \E k \in Keys : WorkerRemove(p, k)
        \/ WorkerClear(p)
        \/ WorkerScan(p)

Faults == \E p \in Procs : \E k \in Keys \cup {0} : DiskError(p, k)

Scheduler == SchedBegin \/ SchedWake \/ SchedFlushResume \/ SchedCancelled

Next ==
    \/ \E t \in Tasks : \E k \in Keys : \E v \in Values : Set(t, k, v)
    \/ \E t \in Tasks : EvictResume(t)
    \/ \E t \in Tasks : CancelSet(t)
    \/ \E t \in Tasks : \E op \in KeyOps : \E k \in EdgeKeys : InvalidKey(t, op, k)
    \/ \E t \in Tasks : \E k \in Keys : GetHit(t, k)
    \/ \E t \in Tasks : \E k \in Keys : GetMiss(t, k)
    \/ \E t \in Tasks : GetResume(t)
    \/ \E t \in Tasks : \E k \in Keys : Delete(t, k)
    \/ \E t \in Tasks : DeleteResume(t)
    \/ \E t \in Tasks : \E k \in Keys : Exists(t, k)
    \/ \E t \in Tasks : Flushdb(t)
    \/ \E t \in Tasks : FlushdbResume(t)
    \/ \E t \in Tasks : \E pat \in Patterns : KeysCall(t, pat)
    \/ \E t \in Tasks : KeysResume(t)
    \/ \E t \in Tasks : DbsizeCall(t)
    \/ \E t \in Tasks : DbsizeResume(t)
    \/ \E t \in Tasks : Flush(t)
    \/ \E t \in Tasks : FlushResume(t)
    \/ \E t \in Tasks : Start(t)
    \/ \E t \in Tasks : Stop(t)
    \/ \E t \in Tasks : StopFlushResume(t)
    \/ \E t \in Tasks : StopReturn(t)
    \/ Scheduler
    \/ Workers
    \/ Faults

Spec == Init /\ [][Next]_vars


\* sets and their evictions, with disk errors
NextSet ==
    \/ \E t \in Tasks : \E k \in Keys : \E v \in Values : Set(t, k, v)
    \/ \E t \in Tasks : EvictResume(t)
    \/ \E p \in Procs : \E k \in Keys : WorkerOpen(p, k)
    \/ \E p \in Procs : \E k \in Keys : WorkerWrite(p, k)
    \/ Faults

SpecSet == Init /\ [][NextSet]_vars

\* one task that sets and gets, with disk errors
NextSeq ==
    \/ \E k \in Keys : \E v \in Values : Set(1, k, v)
    \/ EvictResume(1)
    \/ \E k \in Keys : GetHit(1, k)
    \/ \E k \in Keys : GetMiss(1, k)
    \/ GetResume(1)
    \/ \E p \in Procs : \E k \in Keys : WorkerOpen(p, k)
    \/ \E p \in Procs : \E k \in Keys : WorkerWrite(p, k)
    \/ \E p \in Procs : \E k \in Keys : WorkerLoad(p, k)
    \/ Faults

SpecSeq == Init /\ [][NextSeq]_vars

\* set, get, delete and exists of several tasks, no disk error
NextKV ==
    \/ \E t \in Tasks : \E k \in Keys : \E v \in Values : Set(t, k, v)
    \/ \E t \in Tasks : EvictResume(t)
    \/ \E t \in Tasks : \E k \in Keys : GetHit(t, k)
    \/ \E t \in Tasks : \E k \in Keys : GetMiss(t, k)
    \/ \E t \in Tasks : GetResume(t)
    \/ \E t \in Tasks : \E k \in Keys : Delete(t, k)
    \/ \E t \in Tasks : DeleteResume(t)
    \/ \E t \in Tasks : \E k \in Keys : Exists(t, k)
    \/ \E p \in Procs : \E k \in Keys : WorkerOpen(p, k)
    \/ \E p \in Procs : \E k \in Keys : WorkerWrite(p, k)
    \/ \E p \in Procs : \E k \in Keys : WorkerLoad(p, k)
    \/ \E p \in Procs : \E k \in Keys : WorkerRemove(p, k)

SpecKV == Init /\ [][NextKV]_vars

\* sets and explicit flushes of several tasks, with disk errors
NextFlush ==
    \/ \E t \in Tasks : \E k \in Keys : \E v \in Values : Set(t, k, v)
    \/ \E t \in Tasks : EvictResume(t)
    \/ \E t \in Tasks : Flush(t)
    \/ \E t \in Tasks : FlushResume(t)
    \/ \E p \in Procs : \E k \in Keys : WorkerOpen(p, k)
    \/ \E p \in Procs : \E k \in Keys : WorkerWrite(p, k)
    \/ Faults

SpecFlush == Init /\ [][NextFlush]_vars

\* sets, flush passes and stop, no disk error
NextStop ==
    \/ \E t \in Tasks : \E k \in Keys : \E v \in Values : Set(t, k, v)
    \/ \E t \in Tasks : EvictResume(t)
    \/ \E t \in Tasks : Flush(t)
    \/ \E t \in Tasks : FlushResume(t)
    \/ \E t \in Tasks : Stop(t)
    \/ \E t \in Tasks : StopFlushResume(t)
    \/ \E t \in Tasks : StopReturn(t)
    \/ \E p \in Procs : \E k \in Keys : WorkerOpen(p, k)
    \/ \E p \in Procs : \E k \in Keys : WorkerWrite(p, k)

SpecStop == Init /\ [][NextStop]_vars

\* tasks that set and get keys of their own, and flush; no disk error
Owner(k) == ((k - 1) % NumTasks) + 1

SetOwn(t, k, v) == Owner(k) = t /\ Set(t, k, v)

GetHitOwn(t, k) == Owner(k) = t /\ GetHit(t, k)

GetMissOwn(t, k) == Owner(k) = t /\ GetMiss(t, k)

NextDisjoint ==
    \/ \E t \in Tasks : \E k \in Keys : \E v \in Values : SetOwn(t, k, v)
    \/ \E t \in Tasks : EvictResume(t)
    \/ \E t \in Tasks : \E k \in Keys : GetHitOwn(t, k)
    \/ \E t \in Tasks : \E k \in Keys : GetMissOwn(t, k)
    \/ \E t \in Tasks : GetResume(t)
    \/ \E t \in Tasks : Flush(t)
    \/ \E t \in Tasks : FlushResume(t)
    \/ \E p \in Procs : \E k \in Keys : WorkerOpen(p, k)
    \/ \E p \in Procs : \E k \in Keys : WorkerWrite(p, k)
    \/ \E p \in Procs : \E k \in Keys : WorkerLoad(p, k)

SpecDisjoint == Init /\ [][NextDisjoint]_vars

\* A cache of BatchLen - 1 entries, so that the next set of a new key makes
\* _evict_lru select two evictees.  get installs what it loads without
\* evicting, so the engine reaches this state with cache_size = 1: set of the
\* keys 1..BatchLen-2 in turn (each evicts the one before), flush, get of
\* 1..BatchLen-3 twice (a miss and a hit: access_count 2), set of
\* BatchLen-1 (evicts BatchLen-2, the one entry with access_count 1), get of
\* BatchLen-2 twice.  Timestamps count back from the clock's 0.
WarmCache ==
    [k \in 1..(BatchLen - 1) |->
        IF k = BatchLen - 1 THEN CacheEntry(1, 0 - 2, TRUE, 1)
        ELSE IF k = BatchLen - 2 THEN CacheEntry(1, 0 - 1, FALSE, 2)
        ELSE CacheEntry(1, k - BatchLen - 2, FALSE, 2)]

InitWarm ==
    /\ cache = WarmCache
    /\ disk = [k \in 1..(BatchLen - 2) |-> 1]
    /\ now = 0
    /\ running = TRUE
    /\ shutdown = FALSE
    /\ cancel = FALSE
    /\ pc = [p \in Procs |-> IF p = Sched THEN "off" ELSE "idle"]
    /\ key = [p \in Procs |-> 0]
    /\ evq = [p \in Procs |-> <<>>]
    /\ jobs = [p \in Procs |-> EmptyMap]
    /\ faults = 0
    /\ ev = NoEvent
    /\ expect = [k \in AllKeys |-> IF k \in 1..(BatchLen - 1) THEN 1 ELSE NoExp]
    /\ gh = [p \in Procs |-> NoExp]
    /\ gsnap = [p \in Procs |-> NoSnap]

\* one task that sets keys from that state and is cancelled inside a set; no
\* disk error
NextCancel ==
    \/ \E k \in {1, BatchLen - 1, BatchLen} : \E v \in Values : Set(1, k, v)
    \/ EvictResume(1)
    \/ CancelSet(1)
    \/ \E p \in Procs : \E k \in BatchKeys : WorkerOpen(p, k)
    \/ \E p \in Procs : \E k \in BatchKeys : WorkerWrite(p, k)

SpecCancel == InitWarm /\ [][NextCancel]_vars

\* one task that starts the engine and sets, and the flush scheduler; no
\* disk error.  The event loop runs every coroutine that can go on and the
\* pool's workers run every job handed to them.
NextLive ==
    \/ Start(1)
    \/ \E k \in Keys : \E v \in Values : Set(1, k, v)
    \/ EvictResume(1)
    \/ SchedBegin
    \/ SchedWake
    \/ SchedFlushResume
    \/ \E p \in Procs : \E k \in Keys : WorkerOpen(p, k)
    \/ \E p \in Procs : \E k \in Keys : WorkerWrite(p, k)

DiskWorkers ==
    \E p \in Procs : \E k \in Keys : WorkerOpen(p, k) \/ WorkerWrite(p, k)

SpecLive ==
    /\ Init /\ [][NextLive]_vars
    /\ WF_vars(Scheduler)
    /\ WF_vars(DiskWorkers)
    /\ WF_vars(EvictResume(1))

\* one task that starts the engine, sets two keys and stops the engine, and
\* the flush scheduler; with disk errors and the same scheduling
NextSched ==
    \/ Start(1)
    \/ \E k \in {1, 2} : Set(1, k, 1)
    \/ EvictResume(1)
    \/ Stop(1)
    \/ StopFlushResume(1)
    \/ StopReturn(1)
    \/ SchedBegin
    \/ SchedWake
    \/ SchedFlushResume
    \/ SchedCancelled
    \/ \E p \in Procs : \E k \in Keys : WorkerOpen(p, k)
    \/ \E p \in Procs : \E k \in Keys : WorkerWrite(p, k)
    \/ Faults

SpecSched ==
    /\ Init /\ [][NextSched]_vars
    /\ WF_vars(Scheduler)
    /\ WF_vars(DiskWorkers)
    /\ WF_vars(EvictResume(1))
    /\ WF_vars(StopFlushResume(1))
    /\ WF_vars(StopReturn(1))

\* one task that sets, deletes and enumerates, with disk errors: whenever it
\* calls, no other call and no disk function is in progress
NextEnum ==
    \/ \E k \in Keys : Set(1, k, 1)
    \/ EvictResume(1)
    \/ \E k \in Keys : Delete(1, k)
    \/ DeleteResume(1)
    \/ \E pat \in Patterns : KeysCall(1, pat)
    \/ KeysResume(1)
    \/ DbsizeCall(1)
    \/ DbsizeResume(1)
    \/ \E p \in Procs : \E k \in Keys : WorkerOpen(p, k)
    \/ \E p \in Procs : \E k \in Keys : WorkerWrite(p, k)
    \/ \E p \in Procs : \E k \in Keys : WorkerRemove(p, k)
    \/ \E p \in Procs : WorkerScan(p)
    \/ Faults

SpecEnum == Init /\ [][NextEnum]_vars

\* one task that calls set, get, delete and exists with keys of 1 and of
\* max_key_len characters, with the empty key and with a key that is too long
ArgKeys == {1} \cup EdgeKeys

NextKeyArg ==
    \/ \E k \in ArgKeys : \E v \in Values : Set(1, k, v)
    \/ EvictResume(1)
    \/ \E k \in ArgKeys : GetHit(1, k)
    \/ \E k \in ArgKeys : GetMiss(1, k)
    \/ GetResume(1)
    \/ \E k \in ArgKeys : Delete(1, k)
    \/ DeleteResume(1)
    \/ \E k \in ArgKeys : Exists(1, k)
    \/ \E op \in KeyOps : \E k \in ArgKeys : InvalidKey(1, op, k)
    \/ \E p \in Procs : \E k \in ArgKeys : WorkerOpen(p, k)
    \/ \E p \in Procs : \E k \in ArgKeys : WorkerWrite(p, k)
    \/ \E p \in Procs : \E k \in ArgKeys : WorkerLoad(p, k)
    \/ \E p \in Procs : \E k \in ArgKeys : WorkerRemove(p, k)

SpecKeyArg == Init /\ [][NextKeyArg]_vars


\* one task that sets and flushes and another that calls flushdb; no disk
\* error
NextClear ==
    \/ \E k \in Keys : \E v \in Values : Set(1, k, v)
    \/ EvictResume(1)
    \/ Flush(1)
    \/ FlushResume(1)
    \/ Flushdb(2)
    \/ FlushdbResume(2)
    \/ \E p \in Procs : \E k \in Keys : WorkerOpen(p, k)
    \/ \E p \in Procs : \E k \in Keys : WorkerWrite(p, k)
    \/ \E p \in Procs : WorkerClear(p)

SpecClear == Init /\ [][NextClear]_vars

\* one task that sets, flushes and deletes, with disk errors
NextDel ==
    \/ \E k \in Keys : Set(1, k, 1)
    \/ EvictResume(1)
    \/ Flush(1)
    \/ FlushResume(1)
    \/ \E k \in Keys : Delete(1, k)
    \/ DeleteResume(1)
    \/ \E p \in Procs : \E k \in Keys : WorkerOpen(p, k)
    \/ \E p \in Procs : \E k \in Keys : WorkerWrite(p, k)
    \/ \E p \in Procs : \E k \in Keys : WorkerRemove(p, k)
    \/ Faults

SpecDel == Init /\ [][NextDel]_vars

\* A fresh engine with cache_size = HotSize and one task that sets the keys
\* 1, 2, ... HotSize + HotMore in turn, each once, and gets the first
\* HotSize / 2 of them (the hot set) at any time after their set; every hot
\* key has been read (its access_count is above the 1 of its set) before a
\* set makes the cache overflow.  No disk error.  The clock starts HotCalls
\* before 0, which leaves the task that many more calls.
HotKeys == 1..(HotSize \div 2)

HotWorkload == 1..(HotSize + HotMore)

InitHot ==
    /\ cache = EmptyMap
    /\ disk = EmptyMap
    /\ now = 0 - HotCalls
    /\ running = TRUE
    /\ shutdown = FALSE
    /\ cancel = FALSE
    /\ pc = [p \in Procs |-> IF p = Sched THEN "off" ELSE "idle"]
    /\ key = [p \in Procs |-> 0]
    /\ evq = [p \in Procs |-> <<>>]
    /\ jobs = [p \in Procs |-> EmptyMap]
    /\ faults = 0
    /\ ev = NoEvent
    /\ expect = NoSnap
    /\ gh = [p \in Procs |-> NoExp]
    /\ gsnap = [p \in Procs |-> NoSnap]

\* the workload has set k: its entry is in the cache or was evicted to disk
WasSet(k) == k \in DOMAIN cache \/ FileExists(disk, k)

HotSet(k) ==
    /\ ~WasSet(k)
    /\ \A j \in 1..(k - 1) : WasSet(j)
    /\ Cardinality(DOMAIN cache) >= HotSize =>
          \A h \in HotKeys : h \in DOMAIN cache /\ cache[h].access_count > 1
    /\ SetWith(1, k, 1, HotSize)

NextHot ==
    \/ \E k \in HotWorkload : HotSet(k)
    \/ EvictResume(1)
    \/ \E k \in HotKeys : GetHit(1, k)
    \/ \E p \in Procs : \E k \in HotWorkload : WorkerOpen(p, k)
    \/ \E p \in Procs : \E k \in HotWorkload : WorkerWrite(p, k)

SpecHot == InitHot /\ [][NextHot]_vars

\* A fresh engine and one task that sets the keys of Keys in turn, each
\* once (cache_size of them and more), then calls flush(), then get and
\* dbsize(); no disk error.  After the sets the cache holds a dirty entry
\* until the flush has run.
AllSet == \A k \in Keys : WasSet(k)

Flushed == AllSet /\ DirtyEntries(cache) = {}

\* the value the workload sets key k to
ValueOf(k) == ((k - 1) % NumValues) + 1

OverflowSet(k) ==
    /\ ~WasSet(k)
    /\ \A j \in 1..(k - 1) : WasSet(j)
    /\ Set(1, k, ValueOf(k))

OverflowFlush == AllSet /\ ~Flushed /\ Flush(1)

OverflowGetHit(k) == Flushed /\ GetHit(1, k)

OverflowGetMiss(k) == Flushed /\ GetMiss(1, k)

OverflowDbsize == Flushed /\ DbsizeCall(1)

NextOverflow ==
    \/ \E k \in Keys : OverflowSet(k)
    \/ EvictResume(1)
    \/ OverflowFlush
    \/ FlushResume(1)
    \/ \E k \in Keys : OverflowGetHit(k)
    \/ \E k \in Keys : OverflowGetMiss(k)
    \/ GetResume(1)
    \/ OverflowDbsize
    \/ DbsizeResume(1)
    \/ \E p \in Procs : \E k \in Keys : WorkerOpen(p, k)
    \/ \E p \in Procs : \E k \in Keys : WorkerWrite(p, k)
    \/ \E p \in Procs : \E k \in Keys : WorkerLoad(p, k)
    \/ \E p \in Procs : WorkerScan(p)

SpecOverflow == InitHot /\ [][NextOverflow]_vars

\* ---- the claims ---------------------------------------------------------
\* what get(k) returns when no call and no disk function is in progress
Read(k) == IF k \in DOMAIN cache THEN cache[k].value ELSE LoadFromDisk(disk, k)

Quiescent == \A p \in Procs : AllFinished(p)

\* the step in which the flush of p (of flush(), of stop() or of the
\* scheduler) comes back from its gather
FlushReturns(p) ==
    /\ pc[p] \in {"flush_wait", "stop_flush_wait"}
    /\ pc'[p] # pc[p]

\* the step in which the eviction of t comes back from the write of its
\* evictee (the keys of one eviction are distinct, so the job changes)
EvictReturns(t) ==
    /\ pc[t] = "evict_wait"
    /\ (pc'[t] # pc[t] \/ DOMAIN jobs'[t] # DOMAIN jobs[t])

\* C1: a get(k) that begins after set(k, v) returned, with no delete(k),
\* flushdb or set(k, .) begun since that set, returns v.
\* (Checked where it is least in doubt: when the get returns, no disk function
\* is in progress.)
C1_ReadYourWrites ==
    (ev.op = "get" /\ ev.exc = "" /\ ev.exp \in Values /\ Quiescent) =>
        ev.res = ev.exp

\* C2: when stop() returns, the disk record of every key whose last set
\* returned before stop() was called (and that no delete, flushdb or set
\* touched since) holds that set's value, which is what a fresh engine on the
\* same data_dir returns from get.
C2_NoDirtyLoss ==
    (ev.op = "stop" /\ ev.exc = "") =>
        \A k \in Keys : ev.snap[k] \in Values => LoadFromDisk(disk, k) = ev.snap[k]

\* C3: a flush pass does not clear the dirty flag of an entry that a set
\* installed after the pass took its snapshot, while the write of the
\* snapshot's value was in flight (and succeeded).
C3_FlushKeepsNewerDirty ==
    [][\A p \in Procs : \A k \in Keys :
          (/\ FlushReturns(p)
           /\ k \in DOMAIN jobs[p] /\ jobs[p][k].st = "ok" /\ ~jobs[p][k].live
           /\ k \in DOMAIN cache /\ cache[k].dirty)
          => (k \in DOMAIN cache' /\ cache'[k].dirty)]_vars

\* C4: a dirty evictee whose write failed is still in the cache, and dirty,
\* when the eviction goes on.
C4_EvictionKeepsUnwritten ==
    [][\A t \in Tasks :
          (/\ EvictReturns(t)
           /\ Head(evq[t]).live
           /\ jobs[t][Head(evq[t]).key].st = "fail")
          => (/\ Head(evq[t]).key \in DOMAIN cache'
              /\ cache'[Head(evq[t]).key].dirty)]_vars

\* C5: an entry of the snapshot whose write failed is still dirty after the
\* flush pass.
C5_FailedWriteStaysDirty ==
    [][\A p \in Procs : \A k \in Keys :
          (/\ FlushReturns(p)
           /\ k \in DOMAIN jobs[p] /\ jobs[p][k].st = "fail"
           /\ k \in DOMAIN cache /\ cache[k].dirty)
          => (k \in DOMAIN cache' /\ cache'[k].dirty)]_vars

\* C6: after a delete(k) that returned True, and no set(k, .) since, get(k)
\* returns None and exists(k) returns False.
\* (Checked when no disk function is in progress as the call returns.)
C6_DeleteErases ==
    /\ (ev.op = "get" /\ ev.exc = "" /\ ev.exp = None /\ Quiescent) => ev.res = None
    /\ (ev.op = "exists" /\ ev.exp = None /\ Quiescent) => ev.res = 0

\* C7: when a flush() that began after set(k, v) returned comes back, no disk
\* error has happened and no disk function is in progress, the disk record of
\* k holds v (what a new engine on the same data_dir returns from get(k)).
C7_DurableAfterFlush ==
    (ev.op = "flush" /\ ev.exc = "" /\ faults = 0 /\ Quiescent) =>
        \A k \in Keys : ev.snap[k] \in Values => LoadFromDisk(disk, k) = ev.snap[k]

\* C8: tasks on keys of their own: when all of them are done and a flush()
\* has returned, get(k) returns the value of the last set(k, .).
C8_DisjointKeys ==
    (/\ ev.op = "flush" /\ ev.exc = ""
     /\ \A t \in Tasks : pc[t] = "idle"
     /\ Quiescent) =>
        \A k \in Keys : ev.snap[k] \in Values => Read(k) = ev.snap[k]

\* C9: the cache never holds more than cache_size + 1 entries, and no more
\* than cache_size when no set is in progress.
C9_CacheBound ==
    /\ Cardinality(DOMAIN cache) <= cache_size + 1
    /\ (\A t \in Tasks : pc[t] = "idle") => Cardinality(DOMAIN cache) <= cache_size

\* C10: when stop() returns, no cache entry is dirty.
C10_CleanAfterStop ==
    (ev.op = "stop" /\ ev.exc = "") => DirtyEntries(cache) = {}

\* the facade operations of the engine other than start and stop
FacadeOps ==
    {"set", "get", "delete", "exists", "keys", "dbsize", "flushdb", "flush"}

\* C11: once stop() has returned, a step changes neither the cache nor the
\* disk, and every facade operation that returns has failed with an
\* engine-closed error.
C11_StoppedRejects ==
    [][shutdown =>
          /\ cache' = cache
          /\ disk' = disk
          /\ (ev'.op \in FacadeOps => ev'.exc = "EngineClosed")]_vars

\* C12: set, get, delete and exists called with the empty key or with a key
\* of more than max_key_len characters fail with the validation error in a
\* step that changes neither the cache, nor the disk, nor the work handed to
\* the executor, and no call goes on with such a key; called with a key of 1
\* or of max_key_len characters they do not fail with that error.
C12_InvalidKeyRejected ==
    [][/\ (ev'.op \in KeyOps /\ ev'.key \in AllKeys /\ KeyLen(ev'.key) \in {0, max_key_len + 1})
            => (/\ ev'.exc = "ValidationError"
                /\ cache' = cache /\ disk' = disk /\ jobs' = jobs)
       /\ \A p \in Procs :
            key'[p] \in AllKeys => KeyLen(key'[p]) \notin {0, max_key_len + 1}
       /\ (ev'.op \in KeyOps /\ ev'.key \in AllKeys /\ KeyLen(ev'.key) \in {1, max_key_len})
            => ev'.exc # "ValidationError"]_vars

\* C12 witness: the empty key was refused while the cache holds the key of
\* max_key_len characters and the disk the key of one character
C12_Witness ==
    /\ ev.exc = "ValidationError" /\ ev.key = EmptyKey
    /\ LongestKey \in DOMAIN cache
    /\ 1 \in DOMAIN disk

\* C13: as long as no disk error has happened, every cache entry that is not
\* dirty has a disk record that holds the entry's value.
C13_CleanIsOnDisk ==
    faults = 0 =>
        \A k \in DOMAIN cache :
            ~cache[k].dirty => LoadFromDisk(disk, k) = cache[k].value

\* C14: a get(k) or exists(k) that begins after the last set(k, v) or
\* delete(k) has returned observes it, whatever was in flight on k while that
\* operation ran: get returns v (None after a delete) and exists returns
\* True (False after a delete).
\* (Checked when no disk function is in progress as the call returns.)
C14_PerKeyLinearizable ==
    (ev.op \in {"get", "exists"} /\ ev.exc = "" /\ ev.exp # NoExp /\ Quiescent) =>
        ev.res = IF ev.op = "get" THEN ev.exp
                 ELSE IF ev.exp = None THEN 0 ELSE 1

\* task t is inside the `with self._lock` block of set: the only block that
\* holds an await is the one around `await self._evict_lru()`
InCritical(t) == pc[t] = "evict_wait"

\* C15: at most one task is inside a critical section on the cache, and
\* while a task is suspended inside its critical section no step of another
\* task changes the cache.
C15_MutualExclusion ==
    [][/\ \A t, u \in Tasks : (InCritical(t) /\ InCritical(u)) => t = u
       /\ \A t \in Tasks :
            (InCritical(t) /\ cache' # cache) => pc'[t] # pc[t] \/ jobs'[t] # jobs[t]]_vars

\* a worker is inside _save_to_disk(k, .) for the future of p: the file is
\* open and not yet written
WriteInProgress(p, k) ==
    /\ k \in DOMAIN jobs[p]
    /\ jobs[p][k].op = "save"
    /\ jobs[p][k].st \in {"open", "orphan"}

\* the workers that are inside a disk function
BusyWorkers ==
    Cardinality({pk \in Procs \X AllKeys : WriteInProgress(pk[1], pk[2])})

\* C16: no two workers are writing the record of the same key at the same
\* time (in the states where the pool's max_workers workers suffice for the
\* writes in progress).
C16_WritesSerialize ==
    BusyWorkers <= max_workers =>
        \A k \in Keys : \A p, q \in Procs :
            (WriteInProgress(p, k) /\ WriteInProgress(q, k)) => p = q

\* the evictees that the eviction of t has removed from the cache so far
Removed(t) ==
    LET b == Head(evq[t]).batch
    IN {b[i] : i \in 1..(Len(b) - Len(evq[t]))}

\* C17: when the task that runs set is cancelled at an await of its
\* eviction, the eviction has removed none of the evictees it selected (the
\* one it awaits not being removed, all-or-none means none), and every dirty
\* entry it removed has its value on disk.
C17_CancelSafe ==
    [][\A t \in Tasks :
          (pc[t] = "evict_wait" /\ pc'[t] = "cancelled") =>
              /\ Removed(t) = {}
              /\ \A e \in Removed(t) :
                    e.dirty => LoadFromDisk(disk', e.key) = e.value]_vars

\* C18: once start() has been called and while the engine is not stopped, a
\* value that set(k, v) accepted, and that nothing has overwritten or
\* deleted, is eventually in k's disk record (no disk error having happened).
C18_BackgroundPersistence ==
    \A k \in Keys : \A v \in Values :
        (pc[Sched] # "off" /\ running /\ expect[k] = v)
            ~> (expect[k] # v \/ ~running \/ faults > 0 \/ LoadFromDisk(disk, k) = v)

\* C19: the scheduler task has ended only if the engine was stopped, write
\* errors or not; it begins no flush pass once stop() has returned; and from
\* the call of stop() on it eventually has ended (or was never started).
C19_SchedulerTermination ==
    /\ [](pc[Sched] = "done" => ~running)
    /\ [](ev.op = "wake" => ~shutdown)
    /\ (~running ~> pc[Sched] \in {"off", "done"})

\* C19 witness: stop() has returned, after a write error, and the scheduler
\* has ended by a cancellation that reached it inside a flush pass (the
\* writes of that pass are still recorded)
C19_Witness ==
    /\ shutdown /\ pc[Sched] = "done"
    /\ jobs[Sched] # EmptyMap
    /\ faults > 0

\* the keys in the cache or with a disk record
LiveKeys == {k \in AllKeys : k \in DOMAIN cache \/ LoadFromDisk(disk, k) # None}

\* C20: called with no other call and no disk function in progress, and
\* with no error in the scan, keys(pattern) returns the keys that are in the
\* cache or have a disk record and whose text matches the pattern (all of
\* them for "*"), each once, and dbsize() returns their number.
C20_Enumeration ==
    /\ (ev.op = "keys" /\ ev.exc = "" /\ ev.exp = 1) =>
          ev.res = {k \in LiveKeys : Match(ev.key, KeyName(k))}
    /\ (ev.op = "dbsize" /\ ev.exc = "" /\ ev.exp = 1) =>
          ev.res = Cardinality(LiveKeys)

\* C20 witness: keys(pattern) returned some of the keys and not all, with a
\* key both in the cache and on disk and another on disk alone
C20_Witness ==
    /\ ev.op = "keys" /\ ev.exc = "" /\ ev.exp = 1
    /\ ev.res # {} /\ ev.res # LiveKeys
    /\ \E k \in DOMAIN cache : LoadFromDisk(disk, k) # None
    /\ \E k \in LiveKeys : k \notin DOMAIN cache

\* ghost: a set has been issued since the last flushdb began (a set in
\* progress carries its value in gh, a set that returned left it in expect)
SetSince == expect # NoSnap \/ \E p \in Procs : gh[p] # NoExp

\* C21: when flushdb() returns and no set was issued since it began, the
\* cache is empty and the data directory holds no disk record, also when a
\* flush pass or an eviction write was in flight when flushdb began.
C21_FlushdbClears ==
    (ev.op = "flushdb" /\ ev.exc = "" /\ ~SetSince) =>
        /\ cache = EmptyMap
        /\ \A k \in Keys : LoadFromDisk(disk, k) = None

\* C22: delete(k) takes k out of the cache at once and leaves the other
\* entries alone; when it returns k is not in the cache, whether the disk
\* removal failed or not, and its result is False if the disk removal met an
\* error and True otherwise, record or no record.
C22_DeleteResult ==
    [][\A t \in Tasks :
          /\ (pc[t] = "idle" /\ pc'[t] = "delete_wait") =>
                cache' = RemoveKey(cache, key'[t])
          /\ (pc[t] = "delete_wait" /\ pc'[t] = "idle") =>
                /\ ev'.op = "delete" /\ ev'.key = key[t]
                /\ key[t] \notin DOMAIN cache'
                /\ ev'.res = (IF jobs[t][key[t]].st = "fail" THEN 0 ELSE 1)]_vars

\* C22 witness: delete(k) returned False after a disk error, with k out of
\* the cache and its record still on disk
C22_Witness ==
    /\ ev.op = "delete" /\ ev.exc = "" /\ ev.res = 0
    /\ ev.key \notin DOMAIN cache
    /\ LoadFromDisk(disk, ev.key) # None

\* C23: a start() on an engine that has a scheduler task creates none and
\* changes no state of the engine; after a start() there is a scheduler
\* task, and the field that holds it is never reset, so that one task is
\* created whatever the number of start() calls.
C23_StartIdempotent ==
    [][/\ (ev'.op = "start" /\ pc[Sched] # "off") =>
            /\ ev'.res = 0
            /\ UNCHANGED <<cache, disk, running, shutdown, cancel, pc, key, evq,
                           jobs, faults>>
       /\ ev'.op = "start" => pc'[Sched] # "off"
       /\ pc[Sched] # "off" => pc'[Sched] # "off"]_vars

\* C23 witness: start() was called again on a running engine whose scheduler
\* sleeps, and created no task
C23_Witness ==
    /\ ev.op = "start" /\ ev.res = 0
    /\ running /\ pc[Sched] = "sleep"

\* the step in which task t calls set and set runs up to its first await or
\* to its end
SetStep(t) ==
    /\ pc[t] = "idle"
    /\ \/ pc'[t] = "evict_wait"
       \/ ev'.op = "set" /\ ev'.proc = t /\ ev'.exc = ""

\* the key of that set, and the keys the cache holds once its entry is in
SetKey(t) == IF pc'[t] = "evict_wait" THEN key'[t] ELSE ev'.key

Held(t) == DOMAIN cache \cup {SetKey(t)}

\* the evictees that step selected: the entries it removed and those its
\* loop still holds
Selected(t) ==
    (Held(t) \ DOMAIN cache') \cup {evq'[t][i].key : i \in 1..Len(evq'[t])}

\* entry a sorts before entry b by (access_count, timestamp); the entry
\* of the set has access_count 1 and the time of the call
SortsBefore(t, a, b) ==
    LET ac(x) == IF x = SetKey(t) THEN 1 ELSE cache[x].access_count
        ts(x) == IF x = SetKey(t) THEN now' ELSE cache[x].timestamp
    IN ac(a) < ac(b) \/ (ac(a) = ac(b) /\ ts(a) < ts(b))

\* the evictees are the lowest entries: no entry that stays sorts before one
LowestSelected(t) ==
    \A e \in Selected(t) : \A j \in Held(t) \ Selected(t) : ~SortsBefore(t, j, e)

\* C24: an eviction that runs on n entries (n > cache_size) selects
\* max(1, ceil(n / 10)) evictees, ceil(n / 10) being (n + 9) div 10, and they
\* are the lowest by (access_count, timestamp).
C24_EvictionBatch ==
    [][\A t \in Tasks :
          (SetStep(t) /\ Cardinality(Held(t)) > cache_size) =>
              /\ LET ceil == (Cardinality(Held(t)) + 9) \div 10
                 IN Cardinality(Selected(t)) = (IF ceil < 1 THEN 1 ELSE ceil)
              /\ LowestSelected(t)]_vars

\* C24 as amended: an eviction that runs on n entries (n > cache_size)
\* selects floor(n / 10) + 1 evictees, and they are the lowest by
\* (access_count, timestamp).
C24_EvictionBatchAmended ==
    [][\A t \in Tasks :
          (SetStep(t) /\ Cardinality(Held(t)) > cache_size) =>
              /\ Cardinality(Selected(t)) = Cardinality(Held(t)) \div 10 + 1
              /\ LowestSelected(t)]_vars

\* C24 witness: an eviction that selected two evictees of BatchLen entries
\* has removed the first and writes the second
C24_Witness ==
    /\ pc[1] = "evict_wait"
    /\ Len(Head(evq[1]).batch) = 2 /\ Len(evq[1]) = 1
    /\ Cardinality(DOMAIN cache) = BatchLen - 1

\* C25: in the workload with a hot set, no step takes a hot key out of the
\* cache: every key an eviction removes is outside the hot set.
C25_HotSetStays ==
    [][\A k \in DOMAIN cache \ DOMAIN cache' : k \notin HotKeys]_vars

\* C25 witness: two evictions have happened (two cold keys are on disk and
\* not in the cache) and the hot key is in the cache, read
C25_Witness ==
    /\ Cardinality({k \in DOMAIN disk : k \notin DOMAIN cache}) >= 2
    /\ \A h \in HotKeys : h \in DOMAIN cache /\ cache[h].access_count > 1
    /\ HotKeys # {}

\* C26: in the overflow workload, when a set returns the cache holds at most
\* cache_size entries; an entry that leaves the cache dirty has its value in
\* its disk record; and after the flush every get returns the value that was
\* set and dbsize() returns the number of keys that were set.
C26_Overflow ==
    [][/\ (ev'.op = "set" /\ ev'.exc = "") =>
             Cardinality(DOMAIN cache') <= cache_size
       /\ \A k \in DOMAIN cache \ DOMAIN cache' :
             cache[k].dirty => LoadFromDisk(disk, k) = cache[k].value
       /\ ev'.op = "get" =>
             (ev'.exc = "" /\ ev'.exp \in Values /\ ev'.res = ev'.exp)
       /\ ev'.op = "dbsize" =>
             (ev'.exc = "" /\ ev'.res = Cardinality(Keys))]_vars

\* C26 witness: after the sets, the flush and a get that missed the cache,
\* dbsize() has returned the number of keys
C26_Witness ==
    /\ ev.op = "dbsize" /\ ev.exc = "" /\ ev.res = NumKeys
    /\ Cardinality(DOMAIN cache) > cache_size
    /\ \A k \in Keys : LoadFromDisk(disk, k) \in Values

\* the steps of a get of task t: the call (a hit, or a miss up to its await)
\* and the return from the await
GetCalls(t) ==
    /\ pc[t] = "idle"
    /\ \/ pc'[t] = "get_wait"
       \/ ev'.op = "get" /\ ev'.proc = t /\ ev'.exc = ""

GetReturns(t) == pc[t] = "get_wait" /\ pc'[t] = "idle"

\* the step of a set of task t that installs the entry of k
SetInstalls(t, k) == SetStep(t) /\ SetKey(t) = k

\* C27: a step of get does not change the disk, nor the value or the dirty
\* flag of an entry that is in the cache; a hit changes nothing of the cache
\* but the access_count of its key, which grows by one; a get that returns
\* None leaves the cache as it is; and an entry comes into the cache only by
\* a set of its key or by the return of a get of its key, then clean.
C27_GetFrame ==
    [][/\ \A t \in Tasks :
            (GetCalls(t) \/ GetReturns(t)) =>
                /\ disk' = disk
                /\ \A k \in DOMAIN cache :
                      /\ k \in DOMAIN cache'
                      /\ cache'[k].value = cache[k].value
                      /\ cache'[k].dirty = cache[k].dirty
       /\ \A t \in Tasks :
            (GetCalls(t) /\ pc'[t] = "idle") =>
                /\ ev'.key \in DOMAIN cache
                /\ cache' = [cache EXCEPT ![ev'.key].access_count = @ + 1]
       /\ \A t \in Tasks :
            (GetReturns(t) /\ ev'.res = None) => cache' = cache
       /\ \A k \in DOMAIN cache' \ DOMAIN cache :
            \/ \E t \in Tasks : SetInstalls(t, k)
            \/ \E t \in Tasks :
                  GetReturns(t) /\ key[t] = k /\ ~cache'[k].dirty]_vars

\* C28: flush() returns the number of entries of its snapshot that are in
\* the cache and whose write succeeded (an entry whose write failed, or that
\* left the cache during the pass, is not counted), which is the number of
\* dirty flags the pass cleared; a flush() that finds no dirty entry returns
\* 0 and hands no write to the executor.
C28_FlushCount ==
    [][\A t \in Tasks :
          /\ (pc[t] = "flush_wait" /\ pc'[t] = "idle") =>
                /\ ev'.res = Cardinality({k \in DOMAIN jobs[t] :
                                 jobs[t][k].st = "ok" /\ k \in DOMAIN cache})
                /\ ev'.res = Cardinality({k \in DOMAIN cache :
                                 cache[k].dirty /\ ~cache'[k].dirty})
          /\ (pc[t] = "idle" /\ pc'[t] = "idle" /\ ev'.op = "flush" /\ ev'.proc = t) =>
                /\ ev'.res = 0
                /\ jobs' = jobs /\ disk' = disk /\ cache' = cache]_vars

\* C29: when an eviction comes back from the write of an evictee whose
\* entry another task's set has replaced meanwhile, it does not take the new
\* entry out of the cache unless the new value is on disk.
C29_EvictsOnlyPersisted ==
    [][\A t \in Tasks :
          (/\ EvictReturns(t)
           /\ ~Head(evq[t]).live
           /\ Head(evq[t]).key \in DOMAIN cache
           /\ cache[Head(evq[t]).key].dirty
           /\ LoadFromDisk(disk, Head(evq[t]).key) # cache[Head(evq[t]).key].value)
          => Head(evq[t]).key \in DOMAIN cache']_vars

\* C30: when a get(k) comes back from its load with an older value and the
\* cache holds a dirty entry of k with another value (a set that has
\* returned installed it while the load ran), the get leaves that entry as
\* it is.
C30_GetKeepsNewer ==
    [][\A t \in Tasks :
          (/\ GetReturns(t)
           /\ \A u \in Tasks : pc[u] = "evict_wait" => key[u] # key[t]
           /\ key[t] \in DOMAIN cache
           /\ cache[key[t]].dirty
           /\ jobs[t][key[t]].res \in Values
           /\ jobs[t][key[t]].res # cache[key[t]].value)
          => (/\ key[t] \in DOMAIN cache'
              /\ cache'[key[t]].value = cache[key[t]].value
              /\ cache'[key[t]].dirty)]_vars

\* C31: once delete(k) has returned True and no set(k, .) or flushdb has been
\* issued since it began, k is in the cache in no later state and has no
\* file on disk, whatever load or write of k was in flight while the delete
\* ran.
C31_DeleteFinal ==
    \A k \in Keys :
        expect[k] = None => (k \notin DOMAIN cache /\ ~FileExists(disk, k))

\* C32: a set of a valid key returns True and raises nothing, whatever
\* other tasks' set, delete and evictions did while its eviction was
\* suspended.
C32_SetNeverFails ==
    (ev.op = "set" /\ ev.key \in AllKeys /\ validate_key(ev.key)) =>
        (ev.exc = "" /\ ev.res = 1)

\* C33: with one task that sets and gets, and no disk error, the cache
\* holds at most cache_size entries whenever the task is in no call.
C33_ReadsKeepBound ==
    (pc[1] = "idle" /\ faults = 0 /\ Quiescent) =>
        Cardinality(DOMAIN cache) <= cache_size

====
